---- MODULE Spec2Model ----
(***************************************************************************)
(* A model of es-sector-updater (src/src/main.rs): the per-region update   *)
(* pipeline work_fir, the archive extraction, the two copy passes, the two *)
(* text-rewrite passes and the link selection.                             *)
(*                                                                         *)
(* Strings are sequences of characters (tuples of one-character strings),  *)
(* so that contains / starts_with / ends_with and the splitting of an      *)
(* archive entry name into path components are computed, not assumed.      *)
(* In the texts of profile and session files the three literal keys of the *)
(* two regular expressions stand as one symbol each (KEY, SF, ST).         *)
(*                                                                         *)
(* The file system is a function from absolute normalised paths (sequences *)
(* of names) to nodes; the root <<>> is a directory.                       *)
(***************************************************************************)
EXTENDS Integers, Sequences, FiniteSets, TLC

VARIABLES
    fs,                \* the file system: path -> node
    region,            \* main: index of the configuration entry being worked
    pc,                \* work_fir: the stage about to run, or "returned"
    result,            \* work_fir: "none" while running, then "ok" | "err" | "panic"
    status,            \* main: "running" | "ok" | "err" | "panic"
    tmp_dir,           \* "none" | "guard" (TempDir owned) | "path" (after into_path)
    file_url,          \* the link get_sector_link returned
    archive,           \* the entries of the ZipArchive opened on sector.zip
    sector_file_name,  \* what get_sector_file_name returned
    log,               \* history: the stages that have run, with their outcome
    page,              \* the anchors of the index page fetched
    passes             \* patch passes run so far: [prf |-> n, asr |-> n]

vars == <<fs, region, pc, result, status, tmp_dir, file_url, archive,
          sector_file_name, log, page, passes>>

-----------------------------------------------------------------------------
(* Bounds *)

NRegions == 2
MaxEntries == 3
MaxAnchors == 3
MaxText == 5

-----------------------------------------------------------------------------
(* str: contains, starts_with, ends_with *)

StartsWith(s, p) ==
    Len(s) >= Len(p) /\ SubSeq(s, 1, Len(p)) = p

EndsWith(s, p) ==
    Len(s) >= Len(p) /\ SubSeq(s, Len(s) - Len(p) + 1, Len(s)) = p

Contains(s, p) ==
    \E i \in 1..(Len(s) + 1) :
        i + Len(p) - 1 <= Len(s) /\ SubSeq(s, i, i + Len(p) - 1) = p

Front(s) == SubSeq(s, 1, Len(s) - 1)

Last(s) == s[Len(s)]

\* every ordering of a finite set (read_dir yields entries in no specified order)
RECURSIVE Orders(_)
Orders(S) ==
    IF S = {}
    THEN {<<>>}
    ELSE UNION {{<<x>> \o o : o \in Orders(S \ {x})} : x \in S}

\* the sequences over A of length at most n
SeqsUpTo(A, n) == UNION {[1..k -> A] : k \in 0..n}

-----------------------------------------------------------------------------
(* Paths and the file system *)

DotDot == <<".", ".">>
Dot == <<".">>

Dir == [kind |-> "dir", data |-> <<>>]
File(d) == [kind |-> "file", data |-> d]

IsUnder(p, root) ==
    Len(p) >= Len(root) /\ SubSeq(p, 1, Len(root)) = root

\* the components of the character sequence s from index i on; cur is the
\* component being read (Path::components: separators split, empty dropped)
RECURSIVE SplitAt(_, _, _)
SplitAt(s, i, cur) ==
    IF i > Len(s)
    THEN (IF cur = <<>> THEN <<>> ELSE <<cur>>)
    ELSE IF s[i] = "/"
         THEN (IF cur = <<>> THEN <<>> ELSE <<cur>>) \o SplitAt(s, i + 1, <<>>)
         ELSE SplitAt(s, i + 1, Append(cur, s[i]))

\* Path::new(name): root flag and components ("." components carry nothing)
PathOf(name) ==
    [root  |-> Len(name) > 0 /\ name[1] = "/",
     comps |-> SelectSeq(SplitAt(name, 1, <<>>), LAMBDA c : c # Dot)]

\* Path::join: an absolute path replaces the base
Join(base, p) == IF p.root THEN p.comps ELSE base \o p.comps

\* The path the operating system resolves the lexical path lex to: ".." pops,
\* every component but the last must be an existing directory.
RECURSIVE Walk(_, _, _, _)
Walk(f, lex, i, cur) ==
    IF i > Len(lex)
    THEN [ok |-> TRUE, path |-> cur]
    ELSE IF lex[i] = DotDot
         THEN Walk(f, lex, i + 1, IF cur = <<>> THEN cur ELSE Front(cur))
         ELSE LET nxt == Append(cur, lex[i]) IN
              IF i = Len(lex)
              THEN [ok |-> TRUE, path |-> nxt]
              ELSE IF nxt \in DOMAIN f /\ f[nxt].kind = "dir"
                   THEN Walk(f, lex, i + 1, nxt)
                   ELSE [ok |-> FALSE, path |-> <<>>]

Resolve(f, lex) == Walk(f, lex, 1, <<>>)

Exists(f, lex) ==
    LET r == Resolve(f, lex) IN r.ok /\ r.path \in DOMAIN f

IsDir(f, lex) ==
    LET r == Resolve(f, lex) IN
    r.ok /\ r.path \in DOMAIN f /\ f[r.path].kind = "dir"

IsFile(f, lex) ==
    LET r == Resolve(f, lex) IN
    r.ok /\ r.path \in DOMAIN f /\ f[r.path].kind = "file"

\* fs::create_dir_all: every lexical prefix from the i-th on is made a directory,
\* stopping with an error at the first that cannot be
RECURSIVE MkdirFrom(_, _, _)
MkdirFrom(f, lex, i) ==
    IF i > Len(lex)
    THEN [ok |-> TRUE, fs |-> f]
    ELSE LET r == Resolve(f, SubSeq(lex, 1, i)) IN
         IF ~r.ok
         THEN [ok |-> FALSE, fs |-> f]
         ELSE IF r.path \in DOMAIN f
              THEN (IF f[r.path].kind = "dir"
                    THEN MkdirFrom(f, lex, i + 1)
                    ELSE [ok |-> FALSE, fs |-> f])
              ELSE MkdirFrom((r.path :> Dir) @@ f, lex, i + 1)

create_dir_all(f, lex) == MkdirFrom(f, lex, 1)

\* File::create followed by io::copy of the bytes d: the file is created or
\* truncated and holds d; an error when the path names a directory or its
\* parent does not resolve
write_file(f, lex, d) ==
    LET r == Resolve(f, lex) IN
    IF ~r.ok \/ r.path = <<>> \/ (r.path \in DOMAIN f /\ f[r.path].kind = "dir")
    THEN [ok |-> FALSE, fs |-> f]
    ELSE [ok |-> TRUE, fs |-> (r.path :> File(d)) @@ f]

\* the names of the entries fs::read_dir(dir) yields
ReadDir(f, dir) ==
    {Last(p) : p \in {q \in DOMAIN f : Len(q) = Len(dir) + 1 /\ IsUnder(q, dir)}}

\* the directory and everything below it removed (TempDir's drop)
RemoveTree(f, dir) ==
    [p \in {q \in DOMAIN f : ~IsUnder(q, dir)} |-> f[p]]

\* fs::remove_file
RemoveFile(f, p) ==
    [q \in DOMAIN f \ {p} |-> f[q]]

-----------------------------------------------------------------------------
(* Names, the configuration list and the inputs *)

n_es == <<"e", "s">>
n_tmp == <<"t", "m", "p">>
n_zip == <<"s", "e", "c", "t", "o", "r", ".", "z", "i", "p">>
n_NavData == <<"N", "a", "v", "D", "a", "t", "a">>
n_asr == <<"a">>
n_nav == <<"n">>
x_sct == <<".", "s", "c", "t">>
x_prf == <<".", "p", "r", "f">>
x_asr == <<".", "a", "s", "r">>
x_zip == <<"z", "i", "p">>

Digit(r) == <<"0", "1", "2", "3", "4", "5">>[r + 1]

\* the Config of the r-th entry of config.json
Cfg(r) ==
    [fir          |-> <<"F", Digit(r)>>,
     package_name |-> <<"p", "k">>,
     es_path      |-> <<n_es>>,
     asr_path     |-> n_asr,
     navdata_path |-> n_nav,
     prf_prefix   |-> <<"P">>]

\* the directory tempdir() creates for the r-th region
Scratch(r) == <<n_tmp, <<"t", Digit(r)>>>>

\* archive entries: the entry name as stored in the archive, its bytes, and
\* whether reading the entry fails
Ent(name, data) == [name |-> name, data |-> data, corrupt |-> FALSE]

e_sctA == Ent(<<"A", ".", "s", "c", "t">>, <<"sctA">>)
e_sctB == Ent(<<"B", ".", "s", "c", "t">>, <<"sctB">>)
e_top == Ent(<<"r">>, <<"new">>)
e_dir == Ent(<<"d", "/">>, <<>>)
e_nested == Ent(<<"d", "/", "f">>, <<"new">>)
e_navfile == Ent(<<"n", "/", "x">>, <<"nav">>)
e_evil == Ent(<<".", ".", "/", "e">>, <<"evil">>)
e_evil2 == Ent(<<"d", "/", ".", ".", "/", ".", ".", "/", "e">>, <<"evil">>)
e_abs == Ent(<<"/", "e", "s", "/", "k">>, <<"evil">>)
e_inner == Ent(<<"d", "/", ".", ".", "/", "g">>, <<"in">>)
e_bad == [name |-> <<"b">>, data |-> <<>>, corrupt |-> TRUE]

Packages ==
    {<<e_sctA, e_top, e_nested, e_navfile>>,
     <<e_sctA, e_sctB, e_navfile>>,
     <<e_top, e_navfile>>,
     <<e_sctA, e_dir>>,
     <<e_sctA, e_bad>>}

\* texts: sequences of symbols; KEY, SF and ST are the literals of the patterns
KEY == "Settings\tsector"
SF == "SECTORFILE:"
ST == "SECTORTITLE:"
TAB == "\t"
NL == "\n"
BS == "\\"

\* the installation directory before the run
BaseInstall ==
    (<<>> :> Dir) @@ (<<n_tmp>> :> Dir) @@ (<<n_es>> :> Dir)
    @@ (<<n_es, <<"k">>>> :> File(<<"keep">>))
    @@ (<<n_es, <<"r">>>> :> File(<<"old">>))
    @@ (<<n_es, <<"P", ".", "p", "r", "f">>>> :> File(<<KEY, TAB, "o", NL, "x", NL>>))
    @@ (<<n_es, <<"Q", ".", "p", "r", "f">>>> :> File(<<KEY, TAB, "o", NL>>))

WithAsr(f) ==
    (<<n_es, n_asr>> :> Dir)
    @@ (<<n_es, n_asr, <<"s", ".", "a", "s", "r">>>> :> File(<<SF, "o", NL, ST, "o", NL>>))
    @@ f

Installs ==
    {WithAsr(BaseInstall),
     BaseInstall,
     WithAsr((<<n_es, <<"d">>>> :> Dir) @@ (<<n_es, <<"d">>, <<"f">>>> :> File(<<"old">>))
             @@ BaseInstall),
     WithAsr((<<n_es, <<"d">>>> :> File(<<"old">>)) @@ BaseInstall),
     WithAsr((<<n_es, <<"r">>>> :> Dir) @@ BaseInstall)}

\* an anchor element of the index page: whether its parent is a table cell,
\* whether it has an href attribute, and the attribute's value
Anchor(td, has, href) == [td |-> td, has |-> has, href |-> href]

h_old == <<"p", "k", "1", ".", "z", "i", "p">>
h_new == <<"p", "k", "2", ".", "z", "i", "p">>
h_other == <<"o", ".", "z", "i", "p">>
h_rar == <<"p", "k", "3", ".", "r", "a", "r">>
h_gzip == <<"p", "k", ".", "g", "z", "i", "p">>

Hrefs == {h_old, h_new, h_other, h_rar, h_gzip}

Anchors ==
    {Anchor(td, TRUE, h) : td \in BOOLEAN, h \in Hrefs}
    \cup {Anchor(TRUE, FALSE, <<>>)}

Pages ==
    {<<Anchor(TRUE, TRUE, h_old), Anchor(TRUE, TRUE, h_new)>>,
     <<Anchor(TRUE, TRUE, h_rar)>>}

-----------------------------------------------------------------------------
(* get_sector_link *)

is_correct_link_any_suffix(link, package_name, format) ==
    Contains(link, package_name)

is_correct_link(link, package_name, format) ==
    Contains(link, package_name) /\ EndsWith(link, format)

\* net: whether the fetch of the index page succeeds. The selector "td>a" keeps
\* the anchors whose parent is a table cell; attr("href").unwrap() panics on an
\* anchor without href; last().unwrap() panics when no link is left.
get_sector_link(net, pg, package_name) ==
    LET sel   == SelectSeq(pg, LAMBDA a : a.td)
        links == SelectSeq(sel, LAMBDA a : is_correct_link(a.href, package_name, x_zip))
    IN  IF ~net
        THEN [res |-> "err", url |-> <<>>]
        ELSE IF \E i \in 1..Len(sel) : ~sel[i].has
             THEN [res |-> "panic", url |-> <<>>]
             ELSE IF links = <<>>
                  THEN [res |-> "panic", url |-> <<>>]
                  ELSE [res |-> "ok", url |-> Last(links).href]

-----------------------------------------------------------------------------
(* unzip_archive *)

\* the depth count of ZipFile::enclosed_name: a ".." below depth 0 escapes
RECURSIVE DepthOk(_, _, _)
DepthOk(comps, i, depth) ==
    IF i > Len(comps)
    THEN TRUE
    ELSE IF comps[i] = DotDot
         THEN depth > 0 /\ DepthOk(comps, i + 1, depth - 1)
         ELSE DepthOk(comps, i + 1, depth + 1)

enclosed_name_unchecked(name) ==
    [some |-> TRUE, path |-> PathOf(name)]

\* ZipFile::enclosed_name: None for an absolute path and for one that escapes
enclosed_name(name) ==
    LET p == PathOf(name) IN
    [some |-> ~p.root /\ DepthOk(p.comps, 1, 0), path |-> p]

RECURSIVE UnzipFrom(_, _, _, _)
UnzipFrom(f, arch, tmp, i) ==
    IF i > Len(arch)
    THEN [res |-> "ok", fs |-> f]
    ELSE LET e  == arch[i]
             en == enclosed_name(e.name)
             outpath == Join(tmp, en.path)
         IN
         IF e.corrupt
         THEN [res |-> "err", fs |-> f]
         ELSE IF ~en.some
         THEN UnzipFrom(f, arch, tmp, i + 1)
         ELSE IF EndsWith(e.name, <<"/">>)
         THEN LET m == create_dir_all(f, outpath) IN
              IF m.ok
              THEN UnzipFrom(m.fs, arch, tmp, i + 1)
              ELSE [res |-> "panic", fs |-> m.fs]
         ELSE IF outpath = <<>>
         THEN UnzipFrom(f, arch, tmp, i + 1)
         ELSE LET p == Front(outpath)
                  m == IF Exists(f, p)
                       THEN [ok |-> TRUE, fs |-> f]
                       ELSE create_dir_all(f, p)
                  w == write_file(m.fs, outpath, e.data)
              IN
              IF ~m.ok
              THEN [res |-> "panic", fs |-> m.fs]
              ELSE IF ~w.ok
                   THEN [res |-> "panic", fs |-> m.fs]
                   ELSE UnzipFrom(w.fs, arch, tmp, i + 1)

unzip_archive(f, arch, tmp) == UnzipFrom(f, arch, tmp, 1)

-----------------------------------------------------------------------------
(* copy_files, copy_navdata *)

\* The loop both functions share: the entries of src_dir, in the order ord
\* read_dir yields them, from the i-th on. A directory entry is created under
\* dest_dir (its contents are not visited); any other entry is copied.
RECURSIVE CopyFrom(_, _, _, _, _)
CopyFrom(f, dest_dir, src_dir, ord, i) ==
    IF i > Len(ord)
    THEN [res |-> "ok", fs |-> f]
    ELSE LET src  == Append(src_dir, ord[i])
             dest == Append(dest_dir, ord[i])
         IN
         IF f[src].kind = "dir"
         THEN LET m == create_dir_all(f, dest) IN
              IF m.ok
              THEN CopyFrom(m.fs, dest_dir, src_dir, ord, i + 1)
              ELSE [res |-> "panic", fs |-> m.fs]
         ELSE LET m == IF Exists(f, dest_dir)
                       THEN [ok |-> TRUE, fs |-> f]
                       ELSE create_dir_all(f, dest_dir)
                  w == write_file(m.fs, dest, f[src].data)
              IN
              IF ~m.ok
              THEN [res |-> "panic", fs |-> m.fs]
              ELSE IF ~w.ok
                   THEN [res |-> "err", fs |-> m.fs]
                   ELSE CopyFrom(w.fs, dest_dir, src_dir, ord, i + 1)

copy_files(f, es_path, tmp_path, ord) ==
    IF ~IsDir(f, tmp_path)
    THEN [res |-> "err", fs |-> f]
    ELSE CopyFrom(f, es_path, tmp_path, ord, 1)

copy_navdata(f, es_path, tmp_navdata, ord) ==
    IF ~IsDir(f, tmp_navdata)
    THEN [res |-> "err", fs |-> f]
    ELSE CopyFrom(f, Append(es_path, n_NavData), tmp_navdata, ord, 1)

-----------------------------------------------------------------------------
(* get_sector_file_name *)

\* read_dir(path).unwrap() panics when path is no directory; rv is overwritten
\* by every entry whose name ends in ".sct", so the last such entry in
\* read_dir's order ord wins; None when there is none
get_sector_file_name(f, path, ord) ==
    LET hits == SelectSeq(ord, LAMBDA n : EndsWith(n, x_sct)) IN
    IF ~IsDir(f, path)
    THEN [res |-> "panic", some |-> FALSE, name |-> <<>>]
    ELSE IF hits = <<>>
         THEN [res |-> "ok", some |-> FALSE, name |-> <<>>]
         ELSE [res |-> "ok", some |-> TRUE, name |-> Last(hits)]

-----------------------------------------------------------------------------
(* change_prf_sectors, clear_asr *)

\* the index of the first NL of t at or after i, 0 when there is none
NextNL(t, i) ==
    IF \E j \in i..Len(t) : t[j] = NL
    THEN CHOOSE j \in i..Len(t) : t[j] = NL /\ \A k \in i..(j - 1) : t[k] # NL
    ELSE 0

sector_string_no_newline(name) ==
    <<KEY, TAB, BS>> \o name

\* format!("Settings\tsector\t\\{}\n", sector_file_name)
sector_string(name) ==
    <<KEY, TAB, BS>> \o name \o <<NL>>

\* Regex "Settings\tsector.*\n", replace_all: leftmost matches, not
\* overlapping; ".*" does not cross a newline, the newline is required
RECURSIVE PrfReplaceFrom(_, _, _)
PrfReplaceFrom(t, i, rep) ==
    IF i > Len(t)
    THEN <<>>
    ELSE LET j == NextNL(t, i + 1) IN
         IF t[i] = KEY /\ j # 0
         THEN rep \o PrfReplaceFrom(t, j + 1, rep)
         ELSE <<t[i]>> \o PrfReplaceFrom(t, i + 1, rep)

\* Regex "SECTORFILE:.*\nSECTORTITLE:.*\n", replace_all with
\* "SECTORFILE:\nSECTORTITLE:\n"
RECURSIVE AsrReplaceFrom(_, _)
AsrReplaceFrom(t, i) ==
    IF i > Len(t)
    THEN <<>>
    ELSE LET j == NextNL(t, i + 1)
             k == IF j # 0 /\ j + 1 <= Len(t) /\ t[j + 1] = ST
                  THEN NextNL(t, j + 2)
                  ELSE 0
         IN
         IF t[i] = SF /\ k # 0
         THEN <<SF, NL, ST, NL>> \o AsrReplaceFrom(t, k + 1)
         ELSE <<t[i]>> \o AsrReplaceFrom(t, i + 1)

\* the entries of es_path in the order ord, from the i-th on
RECURSIVE PrfFrom(_, _, _, _, _, _)
PrfFrom(f, es_path, name, prf_prefix, ord, i) ==
    IF i > Len(ord)
    THEN [res |-> "ok", fs |-> f]
    ELSE LET p == Append(es_path, ord[i]) IN
         IF EndsWith(ord[i], x_prf) /\ StartsWith(ord[i], prf_prefix)
         THEN IF f[p].kind = "dir"
              THEN [res |-> "err", fs |-> f]
              ELSE PrfFrom((p :> File(PrfReplaceFrom(f[p].data, 1, sector_string(name)))) @@ f,
                           es_path, name, prf_prefix, ord, i + 1)
         ELSE PrfFrom(f, es_path, name, prf_prefix, ord, i + 1)

change_prf_sectors(f, es_path, name, prf_prefix, ord) ==
    IF ~IsDir(f, es_path)
    THEN [res |-> "err", fs |-> f]
    ELSE PrfFrom(f, es_path, name, prf_prefix, ord, 1)

RECURSIVE AsrFrom(_, _, _, _)
AsrFrom(f, asr_path, ord, i) ==
    IF i > Len(ord)
    THEN [res |-> "ok", fs |-> f]
    ELSE LET p == Append(asr_path, ord[i]) IN
         IF EndsWith(ord[i], x_asr)
         THEN IF f[p].kind = "dir"
              THEN [res |-> "err", fs |-> f]
              ELSE AsrFrom((p :> File(AsrReplaceFrom(f[p].data, 1))) @@ f,
                           asr_path, ord, i + 1)
         ELSE AsrFrom(f, asr_path, ord, i + 1)

clear_asr(f, asr_path, ord) ==
    IF ~IsDir(f, asr_path)
    THEN [res |-> "err", fs |-> f]
    ELSE AsrFrom(f, asr_path, ord, 1)

-----------------------------------------------------------------------------
(* work_fir and main *)

StagesNavdataBeforePatches ==
    <<"get_sector_link", "download", "unzip_archive", "remove_file", "copy_files",
      "copy_navdata", "get_sector_file_name", "change_prf_sectors", "clear_asr">>

\* the calls of work_fir in the order of its statements
Stages ==
    <<"get_sector_link", "download", "unzip_archive", "remove_file", "copy_files",
      "get_sector_file_name", "change_prf_sectors", "clear_asr", "copy_navdata">>

StageIndex(s) == CHOOSE i \in 1..Len(Stages) : Stages[i] = s

StageAfter(s) ==
    IF StageIndex(s) = Len(Stages) THEN "returned" ELSE Stages[StageIndex(s) + 1]

\* What stage s leaves when its body ends with res, the file system f and the
\* scratch ownership guard: on Ok the next statement runs; on an error ("?")
\* or a panic work_fir is left, and a TempDir still owned is dropped, which
\* removes the scratch directory.
Advance(s, res, f, guard) ==
    /\ log' = Append(log, [region |-> region, stage |-> s, res |-> res])
    /\ IF res = "ok" /\ StageAfter(s) # "returned"
       THEN /\ pc' = StageAfter(s)
            /\ result' = "none"
            /\ fs' = f
            /\ tmp_dir' = guard
       ELSE /\ pc' = "returned"
            /\ result' = res
            /\ fs' = IF guard = "guard" THEN RemoveTree(f, Scratch(region)) ELSE f
            /\ tmp_dir' = IF guard = "guard" THEN "none" ELSE guard

AtStage(s) == status = "running" /\ pc = s

GetSectorLink ==
    /\ AtStage("get_sector_link")
    /\ \E net \in BOOLEAN :
        LET r == get_sector_link(net, page, Cfg(region).package_name) IN
        /\ file_url' = r.url
        /\ Advance("get_sector_link", r.res, fs, tmp_dir)
    /\ UNCHANGED <<region, status, archive, sector_file_name, page, passes>>

\* tempdir(), the request, the write of sector.zip, ZipArchive::new
Download ==
    /\ AtStage("download")
    /\ LET made == (Scratch(region) :> Dir) @@ fs
           file_name == Append(Scratch(region), n_zip)
       IN
       \/ /\ archive' = <<>>
          /\ Advance("download", "err", made, "guard")
       \/ /\ archive' = <<>>
          /\ Advance("download", "err", (file_name :> File(<<"html">>)) @@ made, "guard")
       \/ \E a \in Packages :
            /\ archive' = a
            /\ Advance("download", "ok", (file_name :> File(<<"zip">>)) @@ made, "guard")
    /\ UNCHANGED <<region, status, file_url, sector_file_name, page, passes>>

UnzipArchive ==
    /\ AtStage("unzip_archive")
    /\ LET r == unzip_archive(fs, archive, Scratch(region)) IN
       Advance("unzip_archive", r.res, r.fs, tmp_dir)
    /\ UNCHANGED <<region, status, file_url, archive, sector_file_name, page, passes>>

\* fs::remove_file(file_name)?, then tmp_dir.into_path()
RemoveArchive ==
    /\ AtStage("remove_file")
    /\ LET file_name == Append(Scratch(region), n_zip) IN
       IF IsFile(fs, file_name)
       THEN Advance("remove_file", "ok", RemoveFile(fs, file_name), "path")
       ELSE Advance("remove_file", "err", fs, tmp_dir)
    /\ UNCHANGED <<region, status, file_url, archive, sector_file_name, page, passes>>

CopyFiles ==
    /\ AtStage("copy_files")
    /\ \E ord \in Orders(ReadDir(fs, Scratch(region))) :
        LET r == copy_files(fs, Cfg(region).es_path, Scratch(region), ord) IN
        Advance("copy_files", r.res, r.fs, tmp_dir)
    /\ UNCHANGED <<region, status, file_url, archive, sector_file_name, page, passes>>

\* get_sector_file_name(&tmp_path).unwrap()
GetSectorFileName ==
    /\ AtStage("get_sector_file_name")
    /\ \E ord \in Orders({n \in ReadDir(fs, Scratch(region)) : EndsWith(n, x_sct)}) :
        LET r == get_sector_file_name(fs, Scratch(region), ord) IN
        /\ sector_file_name' = r.name
        /\ Advance("get_sector_file_name",
                   IF r.res = "ok" /\ r.some THEN "ok" ELSE "panic",
                   fs, tmp_dir)
    /\ UNCHANGED <<region, status, file_url, archive, page, passes>>

\* the entries of es_path the loop of change_prf_sectors acts on
PrfEntries(f, es_path, prf_prefix) ==
    {n \in ReadDir(f, es_path) : EndsWith(n, x_prf) /\ StartsWith(n, prf_prefix)}

\* the entries of asr_path the loop of clear_asr acts on
AsrEntries(f, asr_path) ==
    {n \in ReadDir(f, asr_path) : EndsWith(n, x_asr)}

ChangePrfSectors ==
    /\ AtStage("change_prf_sectors")
    /\ \E ord \in Orders(PrfEntries(fs, Cfg(region).es_path, Cfg(region).prf_prefix)) :
        LET r == change_prf_sectors(fs, Cfg(region).es_path, sector_file_name,
                                    Cfg(region).prf_prefix, ord)
        IN  Advance("change_prf_sectors", r.res, r.fs, tmp_dir)
    /\ UNCHANGED <<region, status, file_url, archive, sector_file_name, page, passes>>

AsrPath(r) == Join(Cfg(r).es_path, PathOf(Cfg(r).asr_path))

ClearAsr ==
    /\ AtStage("clear_asr")
    /\ \E ord \in Orders(AsrEntries(fs, AsrPath(region))) :
        LET r == clear_asr(fs, AsrPath(region), ord) IN
        Advance("clear_asr", r.res, r.fs, tmp_dir)
    /\ UNCHANGED <<region, status, file_url, archive, sector_file_name, page, passes>>

NavdataPath(r) == Join(Scratch(r), PathOf(Cfg(r).navdata_path))

CopyNavdata ==
    /\ AtStage("copy_navdata")
    /\ \E ord \in Orders(ReadDir(fs, NavdataPath(region))) :
        LET r == copy_navdata(fs, Cfg(region).es_path, NavdataPath(region), ord) IN
        Advance("copy_navdata", r.res, r.fs, tmp_dir)
    /\ UNCHANGED <<region, status, file_url, archive, sector_file_name, page, passes>>

main_loop_keeps_going(res, r) ==
    IF res # "panic" /\ r < NRegions
    THEN [status |-> "running", region |-> r + 1, pc |-> Stages[1]]
    ELSE [status |-> res, region |-> r, pc |-> "returned"]

\* for config in cfg { work_fir(config).await?; } Ok(())
main_loop(res, r) ==
    IF res = "ok" /\ r < NRegions
    THEN [status |-> "running", region |-> r + 1, pc |-> Stages[1]]
    ELSE [status |-> res, region |-> r, pc |-> "returned"]

Main ==
    /\ status = "running"
    /\ pc = "returned"
    /\ LET m == main_loop(result, region) IN
       /\ status' = m.status
       /\ region' = m.region
       /\ pc' = m.pc
    /\ result' = "none"
    /\ tmp_dir' = "none"
    /\ UNCHANGED <<fs, file_url, archive, sector_file_name, log, page, passes>>

Init ==
    /\ fs \in Installs
    /\ page \in Pages
    /\ region = 1
    /\ pc = Stages[1]
    /\ result = "none"
    /\ status = "running"
    /\ tmp_dir = "none"
    /\ file_url = <<>>
    /\ archive = <<>>
    /\ sector_file_name = <<>>
    /\ log = <<>>
    /\ passes = [prf |-> 0, asr |-> 0]

Next ==
    \/ GetSectorLink
    \/ Download
    \/ UnzipArchive
    \/ RemoveArchive
    \/ CopyFiles
    \/ GetSectorFileName
    \/ ChangePrfSectors
    \/ ClearAsr
    \/ CopyNavdata
    \/ Main

Spec == Init /\ [][Next]_vars

-----------------------------------------------------------------------------
(* Claims about the pipeline, checked under Spec *)

EsPath == Cfg(1).es_path

\* the stages of region r that have run, in the order they ran
StagesRun(r) ==
    LET mine == SelectSeq(log, LAMBDA e : e.region = r) IN
    [i \in 1..Len(mine) |-> mine[i].stage]

IsPrefix(s, t) == Len(s) <= Len(t) /\ s = SubSeq(t, 1, Len(s))

\* C1 (as amended): for every region the stages run in the order link
\* resolution, archive retrieval, extraction, removal of the archive file,
\* generic copy, sector-file lookup, profile patch, session patch,
\* navigation-data copy: the navigation-data copy is the last stage, after both
\* patches.
C1_CodeOrder ==
    \A r \in 1..NRegions :
        IsPrefix(StagesRun(r),
                 <<"get_sector_link", "download", "unzip_archive", "remove_file",
                   "copy_files", "get_sector_file_name", "change_prf_sectors",
                   "clear_asr", "copy_navdata">>)

C1_Witness ==
    /\ Len(log) >= 9
    /\ log[7] = [region |-> 1, stage |-> "change_prf_sectors", res |-> "ok"]
    /\ log[9] = [region |-> 1, stage |-> "copy_navdata", res |-> "ok"]

\* C1 (as claimed): the navigation-data copy happens before the profile patch
\* and before the session patch.
C1_NavdataBeforePatches ==
    \A i \in 1..Len(log) :
        log[i].stage \in {"change_prf_sectors", "clear_asr"}
        => \E j \in 1..(i - 1) :
               log[j].region = log[i].region /\ log[j].stage = "copy_navdata"

\* C2 (as claimed): once a region's run has ended, whatever its outcome, its
\* scratch directory and its contents no longer exist.
C2_ScratchRemoved ==
    pc = "returned" => \A p \in DOMAIN fs : ~IsUnder(p, Scratch(region))

\* the path of p, which lies under from, moved under to
Rebase(p, from, to) == to \o SubSeq(p, Len(from) + 1, Len(p))

\* every entry at any depth under src is under dest, files with their content
Mirrored(before, after, src, dest) ==
    \A p \in DOMAIN before :
        (IsUnder(p, src) /\ p # src)
        => /\ Rebase(p, src, dest) \in DOMAIN after
           /\ after[Rebase(p, src, dest)] = before[p]

\* C4 (as claimed): after a successful copy_files every file and directory at
\* any depth under the source is under the destination, and likewise after a
\* successful copy_navdata under NavData.
C4_RecursiveCopy ==
    [][/\ (AtStage("copy_files") /\ log'[Len(log')].res = "ok")
          => Mirrored(fs, fs', Scratch(region), EsPath)
       /\ (AtStage("copy_navdata") /\ log'[Len(log')].res = "ok")
          => Mirrored(fs, fs', NavdataPath(region), Append(EsPath, n_NavData))
      ]_vars

\* destination paths without a same-path source entry are untouched, and a
\* destination file with a same-path source file takes the source's content
Merged(before, after, src, dest) ==
    \A q \in DOMAIN before :
        (IsUnder(q, dest) /\ q # dest /\ ~IsUnder(q, src))
        => IF Rebase(q, dest, src) \in DOMAIN before
           THEN (before[q].kind = "file" /\ before[Rebase(q, dest, src)].kind = "file")
                => (q \in DOMAIN after /\ after[q] = before[Rebase(q, dest, src)])
           ELSE q \in DOMAIN after /\ after[q] = before[q]

\* C5 (as claimed): a copy pass leaves every destination path without a
\* same-path source entry as it was, and every destination file whose path is
\* also a file in the source ends with the source's content.
C5_MergeNotMirror ==
    [][/\ (AtStage("copy_files") /\ log'[Len(log')].res = "ok")
          => Merged(fs, fs', Scratch(region), EsPath)
       /\ (AtStage("copy_navdata") /\ log'[Len(log')].res = "ok")
          => Merged(fs, fs', NavdataPath(region), Append(EsPath, n_NavData))
      ]_vars

\* C6: only the last stage that ran can have failed (after an error no stage
\* of that region or of a later one runs); each stage that runs is the
\* successor of the one before it, or the first stage of the next region after
\* the last stage of a region (configuration order, no retry); a step never
\* removes a path of the installation directory, and a step that ends a
\* region's run in an error outside the copy and patch passes, or that is
\* main's, leaves the installation directory as it was.
C6_Order ==
    /\ \A i \in 1..(Len(log) - 1) : log[i].res = "ok"
    /\ Len(log) > 0 => log[1].region = 1 /\ log[1].stage = "get_sector_link"
    /\ \A i \in 1..(Len(log) - 1) :
          \/ /\ log[i + 1].region = log[i].region
             /\ log[i].stage # "copy_navdata"
             /\ log[i + 1].stage = StageAfter(log[i].stage)
          \/ /\ log[i + 1].region = log[i].region + 1
             /\ log[i].stage = "copy_navdata"
             /\ log[i + 1].stage = "get_sector_link"
    /\ status \in {"err", "panic"} => Len(log) > 0 /\ log[Len(log)].res = status

C6_Kept ==
    /\ \A p \in DOMAIN fs : IsUnder(p, EsPath) => p \in DOMAIN fs'
    /\ (log' = log
        \/ (log'[Len(log')].res # "ok"
            /\ pc \notin {"copy_files", "change_prf_sectors", "clear_asr", "copy_navdata"}))
       => \A p \in DOMAIN fs : IsUnder(p, EsPath) => fs'[p] = fs[p]

\* C6: the order and fail-fast condition holds in every state, and every step
\* keeps the installation directory as stated.
C6_FailFast == [](C6_Order) /\ [][C6_Kept]_vars

C6_Witness ==
    /\ status = "err"
    /\ region = 1
    /\ region < NRegions
    /\ log[Len(log)].stage = "clear_asr"
    /\ Append(EsPath, <<"A", ".", "s", "c", "t">>) \in DOMAIN fs

\* C7 (as claimed): the profile patch runs only when the top level of the
\* extracted package holds exactly one entry whose name ends in ".sct".
C7_ExactlyOneSector ==
    AtStage("change_prf_sectors")
    => Cardinality({n \in ReadDir(fs, Scratch(region)) : EndsWith(n, x_sct)}) = 1

-----------------------------------------------------------------------------
(* unzip_archive on arbitrary archives: SpecUnzip starts work_fir at the call *)
(* of unzip_archive, the archive drawn from the sequences of UnzipEntries     *)

UnzipEntries ==
    {e_sctA, e_dir, e_nested, e_inner, e_evil, e_evil2, e_abs, e_bad}

Downloaded ==
    (Append(Scratch(1), n_zip) :> File(<<"zip">>)) @@ (Scratch(1) :> Dir)
    @@ WithAsr(BaseInstall)

InitUnzip ==
    /\ archive \in SeqsUpTo(UnzipEntries, MaxEntries)
    /\ fs = Downloaded
    /\ page = <<Anchor(TRUE, TRUE, h_new)>>
    /\ region = 1
    /\ pc = "unzip_archive"
    /\ result = "none"
    /\ status = "running"
    /\ tmp_dir = "guard"
    /\ file_url = h_new
    /\ sector_file_name = <<>>
    /\ log = <<[region |-> 1, stage |-> "get_sector_link", res |-> "ok"],
               [region |-> 1, stage |-> "download", res |-> "ok"]>>
    /\ passes = [prf |-> 0, asr |-> 0]

SpecUnzip == InitUnzip /\ [][UnzipArchive]_vars

\* the relative path comps with its ".." components applied; ok is FALSE when
\* one of them climbs above the start
RECURSIVE Normal(_, _, _)
Normal(comps, i, acc) ==
    IF i > Len(comps)
    THEN [ok |-> TRUE, path |-> acc]
    ELSE IF comps[i] = DotDot
         THEN (IF acc = <<>>
               THEN [ok |-> FALSE, path |-> <<>>]
               ELSE Normal(comps, i + 1, Front(acc)))
         ELSE Normal(comps, i + 1, Append(acc, comps[i]))

\* where the entry named name belongs under the destination, if anywhere
Target(name) ==
    IF name[1] = "/"
    THEN [ok |-> FALSE, path |-> <<>>]
    ELSE Normal(PathOf(name).comps, 1, <<>>)

\* C3: unzip_archive changes nothing outside the scratch directory, whatever
\* the archive holds and however it ends; when it succeeds, every entry whose
\* path stays inside is under the scratch directory, a directory entry as a
\* directory and a file entry as a file with the bytes of the last entry of
\* that path.
C3_Step ==
    AtStage("unzip_archive")
    => /\ \A p \in (DOMAIN fs) \cup (DOMAIN fs') :
             ~IsUnder(p, Scratch(region))
             => (p \in DOMAIN fs /\ p \in DOMAIN fs' /\ fs'[p] = fs[p])
       /\ log'[Len(log')].res = "ok"
          => \A i \in 1..Len(archive) :
                Target(archive[i].name).ok
                => LET q == Scratch(region) \o Target(archive[i].name).path IN
                   /\ q \in DOMAIN fs'
                   /\ IF EndsWith(archive[i].name, <<"/">>)
                      THEN fs'[q].kind = "dir"
                      ELSE /\ fs'[q].kind = "file"
                           /\ \E j \in i..Len(archive) :
                                 /\ Target(archive[j].name) = Target(archive[i].name)
                                 /\ fs'[q].data = archive[j].data

\* C3: every step of unzip_archive is confined to the scratch directory and,
\* on success, has created the entries that stay inside it.
C3_ExtractionConfined == [][C3_Step]_vars

C3_Witness ==
    /\ pc = "remove_file"
    /\ \E i, j, k \in 1..Len(archive) :
          archive[i] = e_evil /\ archive[j] = e_dir /\ archive[k] = e_nested
    /\ Scratch(1) \o <<<<"d">>, <<"f">>>> \in DOMAIN fs

-----------------------------------------------------------------------------
(* get_sector_link on arbitrary pages: SpecLink draws the index page from the *)
(* sequences of Anchors                                                       *)

InitLink ==
    /\ page \in SeqsUpTo(Anchors, MaxAnchors)
    /\ fs = WithAsr(BaseInstall)
    /\ region = 1
    /\ pc = "get_sector_link"
    /\ result = "none"
    /\ status = "running"
    /\ tmp_dir = "none"
    /\ file_url = <<>>
    /\ archive = <<>>
    /\ sector_file_name = <<>>
    /\ log = <<>>
    /\ passes = [prf |-> 0, asr |-> 0]

SpecLink == InitLink /\ [][GetSectorLink]_vars

\* the i-th anchor of the page is a link the filter keeps
Matching(i) ==
    /\ page[i].td
    /\ page[i].has
    /\ \E k \in 1..(Len(page[i].href) - 1) :
          SubSeq(page[i].href, k, k + 1) = Cfg(region).package_name
    /\ Len(page[i].href) >= 3
    /\ SubSeq(page[i].href, Len(page[i].href) - 2, Len(page[i].href)) = <<"z", "i", "p">>

\* C10: the link get_sector_link returns is the href of the last anchor in a
\* table cell whose href contains the package name and ends in "zip".
C10_LastMatchingLink ==
    (pc = "download" /\ log[Len(log)].stage = "get_sector_link")
    => \E i \in 1..Len(page) :
          /\ Matching(i)
          /\ file_url = page[i].href
          /\ \A j \in (i + 1)..Len(page) : ~Matching(j)

C10_Witness ==
    /\ pc = "download"
    /\ Len(page) = 2
    /\ Matching(1)
    /\ Matching(2)
    /\ page[1].href # page[2].href
    /\ file_url = page[2].href

-----------------------------------------------------------------------------
(* the two rewrite passes on arbitrary texts: SpecPatch draws the text of the *)
(* profile file or of the session file and runs each pass up to twice         *)

PrfAlphabet == {KEY, TAB, "x", NL}
AsrAlphabet == {SF, ST, "x", NL}

p_prf == <<n_es, <<"P", ".", "p", "r", "f">>>>
p_asr == <<n_es, n_asr, <<"s", ".", "a", "s", "r">>>>

InitPatch ==
    /\ \/ \E t \in SeqsUpTo(PrfAlphabet, MaxText) :
             fs = (p_prf :> File(t)) @@ WithAsr(BaseInstall)
       \/ \E t \in SeqsUpTo(AsrAlphabet, MaxText) :
             fs = (p_asr :> File(t)) @@ WithAsr(BaseInstall)
    /\ sector_file_name = <<"A", ".", "s", "c", "t">>
    /\ page = <<Anchor(TRUE, TRUE, h_new)>>
    /\ region = 1
    /\ pc = "change_prf_sectors"
    /\ result = "none"
    /\ status = "running"
    /\ tmp_dir = "path"
    /\ file_url = h_new
    /\ archive = <<>>
    /\ log = <<>>
    /\ passes = [prf |-> 0, asr |-> 0]

\* one call of change_prf_sectors
PrfPass ==
    /\ passes.prf < 2
    /\ \E ord \in Orders(PrfEntries(fs, Cfg(region).es_path, Cfg(region).prf_prefix)) :
          fs' = change_prf_sectors(fs, Cfg(region).es_path, sector_file_name,
                                   Cfg(region).prf_prefix, ord).fs
    /\ passes' = [passes EXCEPT !.prf = @ + 1]
    /\ UNCHANGED <<region, pc, result, status, tmp_dir, file_url, archive,
                   sector_file_name, log, page>>

\* one call of clear_asr
AsrPass ==
    /\ passes.asr < 2
    /\ \E ord \in Orders(AsrEntries(fs, AsrPath(region))) :
          fs' = clear_asr(fs, AsrPath(region), ord).fs
    /\ passes' = [passes EXCEPT !.asr = @ + 1]
    /\ UNCHANGED <<region, pc, result, status, tmp_dir, file_url, archive,
                   sector_file_name, log, page>>

SpecPatch == InitPatch /\ [][PrfPass \/ AsrPass]_vars

\* the lines of the text t from index i on, each with its newline if it has one
RECURSIVE Lines(_, _)
Lines(t, i) ==
    IF i > Len(t)
    THEN <<>>
    ELSE LET j == NextNL(t, i) IN
         IF j = 0
         THEN <<SubSeq(t, i, Len(t))>>
         ELSE <<SubSeq(t, i, j)>> \o Lines(t, j + 1)

RECURSIVE Flatten(_, _)
Flatten(ls, i) ==
    IF i > Len(ls) THEN <<>> ELSE ls[i] \o Flatten(ls, i + 1)

\* the text with every line that begins Settings<TAB>sector<TAB> replaced by
\* the line Settings<TAB>sector<TAB>\<name>, the line's newline kept as it was
ClaimedPrf(t, name) ==
    LET ls == Lines(t, 1)
        new == [i \in 1..Len(ls) |->
                   IF Len(ls[i]) >= 2 /\ ls[i][1] = KEY /\ ls[i][2] = TAB
                   THEN <<KEY, TAB, BS>> \o name
                        \o (IF ls[i][Len(ls[i])] = NL THEN <<NL>> ELSE <<>>)
                   ELSE ls[i]]
    IN  Flatten(new, 1)

\* C8 (as claimed): change_prf_sectors replaces every line beginning with
\* Settings<TAB>sector<TAB>, a last line without newline included, in every
\* profile file of the prefix, and leaves every other line and file as it was.
C8_SectorLinesReplaced ==
    [][passes'.prf = passes.prf + 1
       => /\ fs'[p_prf].data = ClaimedPrf(fs[p_prf].data, sector_file_name)
          /\ \A p \in DOMAIN fs : p # p_prf => (p \in DOMAIN fs' /\ fs'[p] = fs[p])
      ]_vars

\* the text holds a match of the profile pattern: the key with a newline after
HasPrfMatch(t) ==
    \E i, j \in 1..Len(t) : i < j /\ t[i] = KEY /\ t[j] = NL

\* the text holds a match of the session pattern: SECTORFILE: up to the first
\* newline, then SECTORTITLE: up to the next newline
HasAsrMatch(t) ==
    \E i, j, k \in 1..Len(t) :
        /\ i < j /\ j + 1 < k + 1 /\ j < k
        /\ t[i] = SF /\ t[j] = NL /\ t[j + 1] = ST /\ t[k] = NL
        /\ \A m \in (i + 1)..(j - 1) : t[m] # NL

\* C9: a second run of change_prf_sectors with the same sector filename, and a
\* second run of clear_asr, leave every file as the first run left it; a file
\* without a match is left as it was by the first run too; the pair
\* SECTORFILE:o / SECTORTITLE:o becomes SECTORFILE: / SECTORTITLE:.
C9_Step ==
    /\ (passes'.prf = passes.prf + 1 /\ passes.prf >= 1) => fs' = fs
    /\ (passes'.asr = passes.asr + 1 /\ passes.asr >= 1) => fs' = fs
    /\ (passes'.prf = passes.prf + 1 /\ ~HasPrfMatch(fs[p_prf].data)) => fs' = fs
    /\ (passes'.asr = passes.asr + 1 /\ ~HasAsrMatch(fs[p_asr].data)) => fs' = fs
    /\ (passes'.asr = passes.asr + 1 /\ fs[p_asr].data = <<SF, "o", NL, ST, "o", NL>>)
       => fs'[p_asr].data = <<SF, NL, ST, NL>>

\* C9: every step of a rewrite pass is idempotent in the sense above.
C9_Idempotent == [][C9_Step]_vars

C9_Witness ==
    /\ passes = [prf |-> 2, asr |-> 2]
    /\ \E i \in 1..(Len(fs[p_prf].data) - 8) :
          SubSeq(fs[p_prf].data, i, i + 8)
              = <<KEY, TAB, BS, "A", ".", "s", "c", "t", NL>>
    /\ Len(fs[p_prf].data) > 9
    /\ fs[p_asr].data = <<SF, NL, ST, NL>>

====
